---- MODULE Spec2Model ----
(***************************************************************************)
(* Device declaration and structure serialization of golisp (device.go):   *)
(* structure expansion, the byte codec, the JSON path codec, validation     *)
(* and the WriteToDevice / ReadFromDevice entry points.                     *)
(*                                                                          *)
(* Representation choices                                                   *)
(*  - a *DeviceField is an index into the heap `defs`; every ExpandedField  *)
(*    carries that index, so expansions of one definition share its rules.  *)
(*  - a nil pointer is the empty sequence, a non-nil one a 1-element one.   *)
(*  - a Go string holding a path is kept as its strings.Split(path, "/")    *)
(*    form: "" is <<"">>, "/a/0" is <<"", "a", "0">>.                       *)
(*  - a []byte is a sequence of 0..255; Go index i is TLA+ index i+1.       *)
(*  - a lisp *Data node is a record [t, n, e] (see the JSON section).       *)
(***************************************************************************)
EXTENDS Integers, Sequences, FiniteSets, TLC

VARIABLES defs, structs, expanded, op, arg, out, sent, valid, vtrace, terr, second,
          calls, mutex

vars == <<defs, structs, expanded, op, arg, out, sent, valid, vtrace, terr, second,
          calls, mutex>>

\* ------------------------------------------------------------------ bounds
\* longest top-level field list drawn for the layout specification
MaxFields == 3
\* largest RepeatCount drawn for the layout specification
MaxRepeat == 3

\* ------------------------------------------------------------- primitives
AtomicTypes == {"uint8", "uint16", "uint32"}

IsAtomic(f) == f.TypeName \in AtomicTypes

AlignmentOf(fieldType) ==
    CASE fieldType = "uint8" -> 1
      [] fieldType = "uint16" -> 2
      [] fieldType = "uint32" -> 4
      [] OTHER -> 1

\* fmt.Sprintf("%d", i) for the indexes the model uses
Digits == <<"0", "1", "2", "3", "4", "5">>

Itoa(i) == Digits[i + 1]

\* strconv.ParseInt(step, 10, 32): the index, or -1 for the error return
ParseInt(step) ==
    IF \E i \in 1..Len(Digits) : Digits[i] = step
    THEN (CHOOSE i \in 1..Len(Digits) : Digits[i] = step) - 1
    ELSE -1

\* ------------------------------------------------------------ declaration
NoRule == <<>>

NewFieldWithCount(name, typeName, size, count) ==
    [Name |-> name, TypeName |-> typeName, Size |-> size, RepeatCount |-> count,
     IsConstant |-> FALSE, Constant |-> 0,
     ValidRange |-> NoRule, ValidValues |-> NoRule,
     DeferredValidationCode |-> "nil"]

NewField(name, typeName, size) == NewFieldWithCount(name, typeName, size, 1)

TotalSize(f) == f.Size * f.RepeatCount

RECURSIVE SumTotalSize(_)
\* DeviceStructure.Size as AddField accumulates it
SumTotalSize(fs) ==
    IF fs = <<>> THEN 0 ELSE TotalSize(Head(fs)) + SumTotalSize(Tail(fs))

\* FieldSizeOf for a primitive name; a structure name gives the structure's Size
FieldSizeOf(typeName, innerFields) ==
    CASE typeName = "uint8" -> 1
      [] typeName = "uint16" -> 2
      [] typeName = "uint32" -> 4
      [] OTHER -> SumTotalSize(innerFields)

\* -------------------------------------------------------------- expansion
EmptyExpanded == [Fields |-> <<>>, Size |-> 0]

RECURSIVE addExpandedFieldFrom(_, _, _, _, _, _), addExpandedFields(_, _, _, _, _)
RECURSIVE addExpandedFieldFrom_AlwaysIndexed(_, _, _, _, _, _)

\* mutant: the leaf is placed at the cursor without padding
addAtomic_Packed(es, f, fid, path) ==
    [Fields |-> Append(es.Fields,
                       [FieldDefinition |-> fid, Offset |-> es.Size, Size |-> f.Size,
                        Path |-> path,
                        Value |-> IF f.IsConstant THEN f.Constant ELSE 0]),
     Size |-> es.Size + f.Size]

\* mutant: a cursor that is already aligned is padded by a whole alignment
addAtomic_AlwaysPad(es, f, fid, path) ==
    LET alignment == AlignmentOf(f.TypeName)
        offset == es.Size + (alignment - (es.Size % alignment))
    IN  [Fields |-> Append(es.Fields,
                           [FieldDefinition |-> fid, Offset |-> offset, Size |-> f.Size,
                            Path |-> path,
                            Value |-> IF f.IsConstant THEN f.Constant ELSE 0]),
         Size |-> offset + f.Size]

\* mutant: the structure's Size advances by the field size, not past the padding
addAtomic_SizeWithoutPadding(es, f, fid, path) ==
    LET alignment == AlignmentOf(f.TypeName)
        paddingRequired ==
            IF es.Size = 0 \/ es.Size % alignment = 0
            THEN 0
            ELSE alignment - (es.Size % alignment)
        offset == es.Size + paddingRequired
    IN  [Fields |-> Append(es.Fields,
                           [FieldDefinition |-> fid, Offset |-> offset, Size |-> f.Size,
                            Path |-> path,
                            Value |-> IF f.IsConstant THEN f.Constant ELSE 0]),
         Size |-> es.Size + f.Size]

\* one leaf: the alignment arithmetic of addExpandedField (IsAtomic branch)
addAtomic(es, f, fid, path) ==
    LET alignment == AlignmentOf(f.TypeName)
        paddingRequired ==
            IF es.Size = 0 \/ es.Size % alignment = 0
            THEN 0
            ELSE alignment - (es.Size % alignment)
        offset == es.Size + paddingRequired
        newField == [FieldDefinition |-> fid, Offset |-> offset, Size |-> f.Size,
                     Path |-> path,
                     Value |-> IF f.IsConstant THEN f.Constant ELSE 0]
    IN  [Fields |-> Append(es.Fields, newField), Size |-> offset + f.Size]

\* mutant: the path part carries the index also when RepeatCount is 1
addExpandedFieldFrom_AlwaysIndexed(es, fid, pathSoFar, i, d, s) ==
    LET f == d[fid] IN
    IF i >= f.RepeatCount THEN es
    ELSE LET path == pathSoFar \o <<f.Name, Itoa(i)>>
             es1 == IF IsAtomic(f)
                    THEN addAtomic(es, f, fid, path)
                    ELSE addExpandedFields(es, s[f.TypeName], path, d, s)
         IN  addExpandedFieldFrom_AlwaysIndexed(es1, fid, pathSoFar, i + 1, d, s)

\* the loop of addExpandedField from index i on
addExpandedFieldFrom(es, fid, pathSoFar, i, d, s) ==
    LET f == d[fid] IN
    IF i >= f.RepeatCount THEN es
    ELSE LET pathPart == IF f.RepeatCount > 1 THEN <<f.Name, Itoa(i)>>
                                                ELSE <<f.Name>>
             path == pathSoFar \o pathPart
             es1 == IF IsAtomic(f)
                    THEN addAtomic(es, f, fid, path)
                    ELSE addExpandedFields(es, s[f.TypeName], path, d, s)
         IN  addExpandedFieldFrom(es1, fid, pathSoFar, i + 1, d, s)

addExpandedField(es, fid, pathSoFar, d, s) ==
    addExpandedFieldFrom(es, fid, pathSoFar, 0, d, s)

addExpandedFields(es, fields, pathSoFar, d, s) ==
    IF fields = <<>> THEN es
    ELSE addExpandedFields(addExpandedField(es, Head(fields), pathSoFar, d, s),
                           Tail(fields), pathSoFar, d, s)

\* DeviceStructure.Expand of the structure the API uses
Expand(d, s) == addExpandedFields(EmptyExpanded, s["api"], <<"">>, d, s)

stepsFromPath(path) == Tail(path)

\* ------------------------------------------------------------- byte codec
Pow256(n) == CASE n = 0 -> 1 [] n = 1 -> 256 [] n = 2 -> 65536 [] OTHER -> 16777216

\* the conversion uint32(v): every number of the model is below 2^31 (the
\* model checker's integers are 32-bit), where the conversion keeps the value
Uint32(v) == v

\* byte number count (0 = least significant) of v
ByteOf(v, count) == (v \div Pow256(count)) % 256

addUint8ToByteArray(v, offset, bytes) ==
    [bytes EXCEPT ![offset + 1] = ByteOf(v, 0)]

addUint16ToByteArray(v, offset, bytes) ==
    [bytes EXCEPT ![offset + 1] = ByteOf(v, 0), ![offset + 2] = ByteOf(v, 1)]

addUint32ToByteArray(v, offset, bytes) ==
    [bytes EXCEPT ![offset + 1] = ByteOf(v, 0), ![offset + 2] = ByteOf(v, 1),
                  ![offset + 3] = ByteOf(v, 2), ![offset + 4] = ByteOf(v, 3)]

\* the casts uint8(f.Value), uint16(f.Value), uint32(f.Value) keep the low bits
AddFieldToByteArray(f, bytes, d) ==
    LET typeName == d[f.FieldDefinition].TypeName IN
    CASE typeName = "uint8" -> addUint8ToByteArray(f.Value % 256, f.Offset, bytes)
      [] typeName = "uint16" -> addUint16ToByteArray(f.Value % 65536, f.Offset, bytes)
      [] typeName = "uint32" -> addUint32ToByteArray(Uint32(f.Value), f.Offset, bytes)
      [] OTHER -> bytes

RECURSIVE AddFieldsToByteArray(_, _, _)
AddFieldsToByteArray(fields, bytes, d) ==
    IF fields = <<>> THEN bytes
    ELSE AddFieldsToByteArray(Tail(fields), AddFieldToByteArray(Head(fields), bytes, d), d)

ByteArray(es, d) ==
    AddFieldsToByteArray(es.Fields, [i \in 1..es.Size |-> 0], d)

RECURSIVE OrBytes_BigEndian(_, _, _), OrBytes(_, _, _)
\* mutant: the first byte is taken as the most significant one
OrBytes_BigEndian(f, bytes, count) ==
    IF count >= f.Size THEN 0
    ELSE bytes[f.Offset + count + 1] * Pow256(f.Size - 1 - count)
            + OrBytes_BigEndian(f, bytes, count + 1)

\* the loop of getValueForField from count on: the bytes occupy disjoint bit
\* ranges, so the bitwise OR of the shifted bytes is their sum
OrBytes(f, bytes, count) ==
    IF count >= f.Size THEN 0
    ELSE bytes[f.Offset + count + 1] * Pow256(count) + OrBytes(f, bytes, count + 1)

\* mutant: a constant field is read from the buffer like any other
getValueForField_ReadsConstant(f, bytes, d) == OrBytes(f, bytes, 0)

getValueForField(f, bytes, d) ==
    IF d[f.FieldDefinition].IsConstant
    THEN d[f.FieldDefinition].Constant
    ELSE OrBytes(f, bytes, 0)

\* the read of (*bytes)[index] past the end of the buffer panics
ReadsPastEnd(f, bytes, d) ==
    /\ ~d[f.FieldDefinition].IsConstant
    /\ f.Size > 0
    /\ f.Offset + f.Size > Len(bytes)

RECURSIVE PopulateFieldsFromBytes(_, _, _, _)
\* the loop of PopulateFromBytes from field k on; stops at the first panic
PopulateFieldsFromBytes(fields, k, bytes, d) ==
    IF k > Len(fields) THEN [Fields |-> fields, panic |-> FALSE]
    ELSE IF ReadsPastEnd(fields[k], bytes, d) THEN [Fields |-> fields, panic |-> TRUE]
    ELSE PopulateFieldsFromBytes(
            [fields EXCEPT ![k].Value = getValueForField(fields[k], bytes, d)],
            k + 1, bytes, d)

PopulateFromBytes(es, bytes, d) ==
    LET r == PopulateFieldsFromBytes(es.Fields, 1, bytes, d)
    IN  [es |-> [es EXCEPT !.Fields = r.Fields], panic |-> r.panic]

\* ------------------------------------------------------------ lisp data
\* A *Data node: t is the node type, n the number of a "num" node, s the text
\* of a "str" node, e the parts of a "pair" (<<car, cdr>>), the elements of a
\* "list", or the pairs of an "alist".  The Go nil pointer is the "nil" node.
Node(t, n, s, e) == [t |-> t, n |-> n, s |-> s, e |-> e]

Nil == Node("nil", 0, "", <<>>)

NumberWithValue(v) == Node("num", v, "", <<>>)

StringWithValue(x) == Node("str", 0, x, <<>>)

Cons(car, cdr) == Node("pair", 0, "", <<car, cdr>>)

ListOf(elems) == Node("list", 0, "", elems)

AlistOf(pairs) == Node("alist", 0, "", pairs)

\* Alist(EmptyCons()): an association list without pairs
EmptyAlist == AlistOf(<<>>)

Car(node) == IF node.t = "pair" THEN node.e[1] ELSE Nil

Cdr(node) == IF node.t = "pair" THEN node.e[2] ELSE Nil

NumericValue(node) == IF node.t = "num" THEN node.n ELSE 0

\* Assoc: the first pair whose key is `key`; a missing key is the nil pair
\* without an error, anything but an association list (or nil) is an error
Assoc(key, alist) ==
    IF alist.t = "nil" THEN [pair |-> Nil, err |-> FALSE]
    ELSE IF alist.t # "alist" THEN [pair |-> Nil, err |-> TRUE]
    ELSE LET hits == {i \in 1..Len(alist.e) : Car(alist.e[i]).s = key.s}
         IN  IF hits = {} THEN [pair |-> Nil, err |-> FALSE]
             ELSE [pair |-> alist.e[CHOOSE i \in hits : \A j \in hits : i <= j],
                   err |-> FALSE]

\* Acons: the association list with `car` bound to `cdr` (a bound key is rebound)
Acons(car, cdr, alist) ==
    LET pairs == IF alist.t = "alist" THEN alist.e ELSE <<>>
        hits == {i \in 1..Len(pairs) : Car(pairs[i]).s = car.s}
    IN  IF hits = {}
        THEN AlistOf(<<Cons(car, cdr)>> \o pairs)
        ELSE AlistOf([i \in 1..Len(pairs) |->
                        IF i \in hits THEN Cons(car, cdr) ELSE pairs[i]])

\* Append: the list with `value` added at its end (nil is the empty list)
AppendData(list, value) ==
    IF list.t = "list" THEN ListOf(Append(list.e, value)) ELSE ListOf(<<value>>)

\* Nth: the n-th element of a list, counted from 1; nil past its end
Nth(list, n) ==
    IF list.t = "list" /\ n >= 1 /\ n <= Len(list.e) THEN list.e[n] ELSE Nil

\* ------------------------------------------------------- JSON path codec
RECURSIVE extractValueFromJsonWithStepAndParent_SkipsMissing(_, _, _, _)
\* mutant: a key that is missing ends the walk and leaves the value as it was
extractValueFromJsonWithStepAndParent_SkipsMissing(f, json, steps, d) ==
    IF d[f.FieldDefinition].IsConstant THEN f.Value
    ELSE IF Len(steps) = 0 THEN Uint32(NumericValue(json))
    ELSE LET step == steps[1]
             i == ParseInt(step)
         IN  IF i = -1
             THEN LET r == Assoc(StringWithValue(step), json)
                  IN  IF ~r.err /\ r.pair.t # "nil"
                      THEN extractValueFromJsonWithStepAndParent_SkipsMissing(
                                f, Cdr(r.pair), Tail(steps), d)
                      ELSE f.Value
             ELSE extractValueFromJsonWithStepAndParent_SkipsMissing(
                        f, Nth(json, i + 1), Tail(steps), d)

RECURSIVE extractValueFromJsonWithStepAndParent(_, _, _, _)
\* the Value the field has when the call returns (fixtures declare no
\* FromJsonTransform, so that branch is never taken)
extractValueFromJsonWithStepAndParent(f, json, steps, d) ==
    IF d[f.FieldDefinition].IsConstant THEN f.Value
    ELSE IF Len(steps) = 0 THEN Uint32(NumericValue(json))
    ELSE LET step == steps[1]
             i == ParseInt(step)
         IN  IF i = -1
             THEN LET r == Assoc(StringWithValue(step), json)
                  IN  IF ~r.err
                      THEN extractValueFromJsonWithStepAndParent(f, Cdr(r.pair), Tail(steps), d)
                      ELSE f.Value
             ELSE extractValueFromJsonWithStepAndParent(f, Nth(json, i + 1), Tail(steps), d)

extractValueFromJson(f, alist, d) ==
    extractValueFromJsonWithStepAndParent(f, alist, stepsFromPath(f.Path), d)

PopulateFromJson(es, jsonData, d) ==
    [es EXCEPT !.Fields = [k \in 1..Len(es.Fields) |->
        [es.Fields[k] EXCEPT !.Value = extractValueFromJson(es.Fields[k], jsonData, d)]]]

RECURSIVE insertIntoJson_DropsSiblings(_, _, _)
\* mutant: the value already bound to a key is not passed down, so the keys
\* and elements inserted under it before are lost
insertIntoJson_DropsSiblings(f, steps, root) ==
    IF Len(steps) = 0 THEN NumberWithValue(f.Value)
    ELSE LET step == StringWithValue(steps[1]) IN
         IF ParseInt(steps[1]) = -1
         THEN LET root1 == IF root.t = "nil" THEN EmptyAlist ELSE root
              IN  Acons(step, insertIntoJson_DropsSiblings(f, Tail(steps), Nil), root1)
         ELSE AppendData(root, insertIntoJson_DropsSiblings(f, Tail(steps), Nil))

RECURSIVE insertIntoJson(_, _, _)
insertIntoJson(f, steps, root) ==
    IF Len(steps) = 0 THEN NumberWithValue(f.Value)
    ELSE LET step == StringWithValue(steps[1]) IN
         IF ParseInt(steps[1]) = -1
         THEN LET root1 == IF root.t = "nil" THEN EmptyAlist ELSE root
                  pair == Assoc(step, root1).pair
              IN  IF pair.t = "nil"
                  THEN Acons(step, insertIntoJson(f, Tail(steps), Nil), root1)
                  ELSE Acons(step, insertIntoJson(f, Tail(steps), Cdr(pair)), root1)
         ELSE AppendData(root, insertIntoJson(f, Tail(steps), Nil))

RECURSIVE JsonFrom(_, _)
\* the loop of Json over the remaining fields
JsonFrom(fields, root) ==
    IF fields = <<>> THEN root
    ELSE JsonFrom(Tail(fields), insertIntoJson(Head(fields), Tail(Head(fields).Path), root))

Json(es) == JsonFrom(es.Fields, EmptyAlist)

\* ------------------------------------------------------------- validation
\* mutant: the upper bound is exclusive
Range_Validate_ExclusiveHi(self, value) == value >= self.Lo /\ value < self.Hi

Range_Validate(self, value) == value >= self.Lo /\ value <= self.Hi

Values_Validate(self, value) == \E i \in 1..Len(self.Vals) : self.Vals[i] = value

\* the deferred expressions the declarations use
DeferredCodes == {"(range 2 4)", "(values 3 300)", "(range 0 len)", "(begin)",
                  "(error)", "(begin (range 2 4) (error))"}

AttachRange(d, fid, lo, hi) == [d EXCEPT ![fid].ValidRange = <<[Lo |-> lo, Hi |-> hi]>>]

AttachValues(d, fid, vals) == [d EXCEPT ![fid].ValidValues = <<[Vals |-> vals]>>]

\* Eval of a deferred expression in env with CurrentField = fieldDef: the
\* error return and the definitions as the expression leaves them
Eval(code, env, d, fid) ==
    CASE code = "(range 2 4)" -> [err |-> FALSE, defs |-> AttachRange(d, fid, 2, 4)]
      [] code = "(values 3 300)" -> [err |-> FALSE, defs |-> AttachValues(d, fid, <<3, 300>>)]
      [] code = "(range 0 len)" ->
            IF "len" \in DOMAIN env
            THEN [err |-> FALSE, defs |-> AttachRange(d, fid, 0, env["len"])]
            ELSE [err |-> TRUE, defs |-> d]
      [] code = "(begin)" -> [err |-> FALSE, defs |-> d]
      [] code = "(error)" -> [err |-> TRUE, defs |-> d]
      [] code = "(begin (range 2 4) (error))" -> [err |-> TRUE, defs |-> AttachRange(d, fid, 2, 4)]
      [] OTHER -> [err |-> TRUE, defs |-> d]

\* deepest nesting of ExpandedField.Validate calls followed before the
\* recursion is taken to exhaust the goroutine stack
MaxDepth == 3

RECURSIVE ExpandedField_Validate_OneShot(_, _, _, _)
\* mutant: the reset also removes the deferred expression from the definition
ExpandedField_Validate_OneShot(self, env, d, depth) ==
    LET fid == self.FieldDefinition
        fieldDef == d[fid]
    IN  IF depth > MaxDepth
        THEN [result |-> FALSE, defs |-> d, evals |-> 0, overflow |-> TRUE]
        ELSE IF fieldDef.IsConstant
        THEN [result |-> TRUE, defs |-> d, evals |-> 0, overflow |-> FALSE]
        ELSE IF fieldDef.ValidRange # NoRule
        THEN [result |-> Range_Validate(fieldDef.ValidRange[1], self.Value),
              defs |-> d, evals |-> 0, overflow |-> FALSE]
        ELSE IF fieldDef.ValidValues # NoRule
        THEN [result |-> Values_Validate(fieldDef.ValidValues[1], self.Value),
              defs |-> d, evals |-> 0, overflow |-> FALSE]
        ELSE IF fieldDef.DeferredValidationCode # "nil"
        THEN LET ev == Eval(fieldDef.DeferredValidationCode, env, d, fid) IN
             IF ev.err
             THEN [result |-> FALSE, defs |-> ev.defs, evals |-> 1, overflow |-> FALSE]
             ELSE LET r == ExpandedField_Validate_OneShot(self, env, ev.defs, depth + 1) IN
                  IF r.overflow
                  THEN [r EXCEPT !.evals = r.evals + 1]
                  ELSE [result |-> r.result,
                        defs |-> [r.defs EXCEPT ![fid].ValidRange = NoRule,
                                                ![fid].ValidValues = NoRule,
                                                ![fid].DeferredValidationCode = "nil"],
                        evals |-> r.evals + 1, overflow |-> FALSE]
        ELSE [result |-> TRUE, defs |-> d, evals |-> 0, overflow |-> FALSE]

RECURSIVE ExpandedField_Validate(_, _, _, _)
\* result: the boolean returned; defs: the definitions afterwards; evals: the
\* number of Eval calls made; overflow: the recursion did not return
ExpandedField_Validate(self, env, d, depth) ==
    LET fid == self.FieldDefinition
        fieldDef == d[fid]
    IN  IF depth > MaxDepth
        THEN [result |-> FALSE, defs |-> d, evals |-> 0, overflow |-> TRUE]
        ELSE IF fieldDef.IsConstant
        THEN [result |-> TRUE, defs |-> d, evals |-> 0, overflow |-> FALSE]
        ELSE IF fieldDef.ValidRange # NoRule
        THEN [result |-> Range_Validate(fieldDef.ValidRange[1], self.Value),
              defs |-> d, evals |-> 0, overflow |-> FALSE]
        ELSE IF fieldDef.ValidValues # NoRule
        THEN [result |-> Values_Validate(fieldDef.ValidValues[1], self.Value),
              defs |-> d, evals |-> 0, overflow |-> FALSE]
        ELSE IF fieldDef.DeferredValidationCode # "nil"
        THEN LET ev == Eval(fieldDef.DeferredValidationCode, env, d, fid) IN
             IF ev.err
             THEN [result |-> FALSE, defs |-> ev.defs, evals |-> 1, overflow |-> FALSE]
             ELSE LET r == ExpandedField_Validate(self, env, ev.defs, depth + 1) IN
                  IF r.overflow
                  THEN [r EXCEPT !.evals = r.evals + 1]
                  ELSE [result |-> r.result,
                        defs |-> [r.defs EXCEPT ![fid].ValidRange = NoRule,
                                                ![fid].ValidValues = NoRule],
                        evals |-> r.evals + 1, overflow |-> FALSE]
        ELSE [result |-> TRUE, defs |-> d, evals |-> 0, overflow |-> FALSE]

RECURSIVE ValidateFrom_NoShortCircuit(_, _, _, _, _)
\* mutant: the loop goes on after a field failed and returns the conjunction
ValidateFrom_NoShortCircuit(es, k, env, d, trace) ==
    IF k > Len(es.Fields)
    THEN [result |-> \A i \in 1..Len(trace) : trace[i].result, defs |-> d,
          trace |-> trace, overflow |-> FALSE]
    ELSE LET field == es.Fields[k]
             env1 == (d[field.FieldDefinition].Name :> field.Value) @@ env
             r == ExpandedField_Validate(field, env1, d, 1)
             trace1 == Append(trace, [field |-> k, env |-> env1, evals |-> r.evals,
                                      result |-> r.result])
         IN  IF r.overflow
             THEN [result |-> FALSE, defs |-> r.defs, trace |-> trace1, overflow |-> TRUE]
             ELSE ValidateFrom_NoShortCircuit(es, k + 1, env1, r.defs, trace1)

RECURSIVE ValidateFrom(_, _, _, _, _)
\* the loop of ExpandedStructure.Validate from field k on; trace lists, for
\* every field whose Validate was called, the frame it was called with, the
\* number of Eval calls it made and the boolean it returned
ValidateFrom(es, k, env, d, trace) ==
    IF k > Len(es.Fields)
    THEN [result |-> TRUE, defs |-> d, trace |-> trace, overflow |-> FALSE]
    ELSE LET field == es.Fields[k]
             env1 == (d[field.FieldDefinition].Name :> field.Value) @@ env
             r == ExpandedField_Validate(field, env1, d, 1)
             trace1 == Append(trace, [field |-> k, env |-> env1, evals |-> r.evals,
                                      result |-> r.result])
         IN  IF r.overflow
             THEN [result |-> FALSE, defs |-> r.defs, trace |-> trace1, overflow |-> TRUE]
             ELSE IF ~r.result
             THEN [result |-> FALSE, defs |-> r.defs, trace |-> trace1, overflow |-> FALSE]
             ELSE ValidateFrom(es, k + 1, env1, r.defs, trace1)

\* NewSymbolTableFrameBelow(Global): a frame without local bindings
EmptyEnv == [n \in {} |-> 0]

ExpandedStructure_Validate(es, d) == ValidateFrom(es, 1, EmptyEnv, d, <<>>)

\* ------------------------------------------------- layout specification
TopNames == <<"a", "items", "c", "d", "e", "f">>
InnerNames == <<"b", "c", "x", "y">>

\* a field is single, doubled or repeated MaxRepeat times
RepeatChoices == {1, 2, MaxRepeat}

TopChoices == [TypeName : AtomicTypes \cup {"inner"}, RepeatCount : RepeatChoices]

SeqsUpTo(S, n) == UNION {[1..k -> S] : k \in 1..n}

\* the field types of the nested structure "inner": one or two primitives
InnerChoices == SeqsUpTo(AtomicTypes, 2)

Declare(top, inner) ==
    LET innerFields == [j \in 1..Len(inner) |->
                          NewField(InnerNames[j], inner[j], FieldSizeOf(inner[j], <<>>))]
        topFields == [i \in 1..Len(top) |->
                          NewFieldWithCount(TopNames[i], top[i].TypeName,
                                            FieldSizeOf(top[i].TypeName, innerFields),
                                            top[i].RepeatCount)]
    IN  [defs |-> topFields \o innerFields,
         structs |-> [n \in {"api", "inner"} |->
                        IF n = "api" THEN [i \in 1..Len(top) |-> i]
                        ELSE [j \in 1..Len(inner) |-> Len(top) + j]]]

\* the goroutines that call WriteToDevice / ReadFromDevice at the same time
Callers == {"c1", "c2"}

\* a caller's position in its call and the locals of the call
NoCall == [pc |-> "idle", kind |-> "none", doc |-> EmptyAlist, k |-> 1,
           bytes |-> <<>>, handed |-> <<>>, result |-> Nil]

NoCalls == [p \in Callers |-> NoCall]

\* the per-device lock of the callers: not used, and held by nobody
NoMutex == [used |-> FALSE, holder |-> "free"]

Idle ==
    /\ op = "declared"
    /\ arg = <<>>
    /\ out = <<>>
    /\ sent = <<>>
    /\ valid = "none"
    /\ vtrace = <<>>
    /\ terr = FALSE
    /\ second = FALSE
    /\ calls = NoCalls
    /\ mutex = NoMutex

InitExpand ==
    /\ \E top \in SeqsUpTo(TopChoices, MaxFields), inner \in InnerChoices :
          LET decl == Declare(top, inner) IN
          /\ defs = decl.defs
          /\ structs = decl.structs
    /\ expanded = EmptyExpanded
    /\ Idle

\* LoadDeviceDeclaration: DeviceDeclaration.Expand stores the expansion
LoadDeviceDeclaration ==
    /\ op = "declared"
    /\ expanded' = Expand(defs, structs)
    /\ op' = "Expand"
    /\ UNCHANGED <<defs, structs, arg, out, sent, valid, vtrace, terr, second,
                   calls, mutex>>

NextExpand == LoadDeviceDeclaration

SpecExpand == InitExpand /\ [][NextExpand]_vars


\* --------------------------------------------------------------- framing
\* command byte the API's write/read command puts in front of the payload
CmdHeader == 170

SerializePayload(bytes) == <<CmdHeader>> \o bytes

ExtractPayload(framed) == Tail(framed)

\* ---------------------------------------------------------- declarations
Constant(f, c) == [f EXCEPT !.IsConstant = TRUE, !.Constant = c]

WithRange(f, lo, hi) == [f EXCEPT !.ValidRange = <<[Lo |-> lo, Hi |-> hi]>>]

WithValues(f, vals) == [f EXCEPT !.ValidValues = <<[Vals |-> vals]>>]

WithDeferred(f, code) == [f EXCEPT !.DeferredValidationCode = code]

Device(d, api, inner) ==
    [defs |-> d, structs |-> [n \in {"api", "inner"} |-> IF n = "api" THEN api ELSE inner]]

\* {status: uint8, value: uint16}
StatusValueDevice ==
    Device(<<NewField("status", "uint8", 1), NewField("value", "uint16", 2)>>,
           <<1, 2>>, <<>>)

\* {a: {b: uint8, c: uint16}, items: [2]uint8}
NestedDevice ==
    Device(<<NewField("a", "inner", 3), NewFieldWithCount("items", "uint8", 1, 2),
             NewField("b", "uint8", 1), NewField("c", "uint16", 2)>>,
           <<1, 2>>, <<3, 4>>)

\* a constant (with a range its value violates), a range and a value set
RulesDevice ==
    Device(<<WithRange(Constant(NewField("magic", "uint8", 1), 7), 0, 3),
             WithRange(NewField("level", "uint16", 2), 1, 300),
             WithValues(NewField("mode", "uint8", 1), <<1, 5>>)>>,
           <<1, 2, 3>>, <<>>)

\* a field carrying both a range and a value set, and a field without a rule
BothDevice ==
    Device(<<WithValues(WithRange(NewField("both", "uint8", 1), 0, 3), <<44>>),
             NewField("free", "uint32", 4)>>,
           <<1, 2>>, <<>>)

\* {len: uint8, idx: uint8 with a deferred rule}
DeferredDevice(code) ==
    Device(<<NewField("len", "uint8", 1),
             WithDeferred(NewField("idx", "uint8", 1), code)>>,
           <<1, 2>>, <<>>)

\* {idx: uint8 with a deferred rule that reads len, len: uint8}
ForwardDevice ==
    Device(<<WithDeferred(NewField("idx", "uint8", 1), "(range 0 len)"),
             NewField("len", "uint8", 1)>>,
           <<1, 2>>, <<>>)

\* {gate: uint8 in 1..1, idx: uint8 with a deferred rule}
GuardedDevice ==
    Device(<<WithRange(NewField("gate", "uint8", 1), 1, 1),
             WithDeferred(NewField("idx", "uint8", 1), "(range 2 4)")>>,
           <<1, 2>>, <<>>)

Devices ==
    {StatusValueDevice, NestedDevice, RulesDevice, BothDevice, ForwardDevice,
     GuardedDevice}
        \cup {DeferredDevice(code) : code \in DeferredCodes}

\* ------------------------------------------------------------------ inputs
\* numbers a JSON document carries
JsonValues == {1, 300}

RECURSIVE DocsOfFields(_, _, _)
\* the documents for a field list: every key present or missing, every array
\* of a repeated field with 0..RepeatCount elements
DocsOfFields(fids, d, s) ==
    IF fids = <<>> THEN {<<>>}
    ELSE LET f == d[Head(fids)]
             elems == IF IsAtomic(f)
                      THEN {NumberWithValue(v) : v \in JsonValues}
                      ELSE {AlistOf(ps) : ps \in DocsOfFields(s[f.TypeName], d, s)}
             values == IF f.RepeatCount > 1
                       THEN {ListOf(l) : l \in UNION {[1..n -> elems] : n \in 0..f.RepeatCount}}
                       ELSE elems
             rest == DocsOfFields(Tail(fids), d, s)
         IN  rest \cup {<<Cons(StringWithValue(f.Name), v)>> \o r : v \in values, r \in rest}

Docs == {AlistOf(ps) : ps \in DocsOfFields(structs["api"], defs, structs)}

\* reply buffers of the device: bytes 2, 3, 4, ... of the given length
Pattern(n) == [i \in 1..n |-> i + 1]

Running == op \notin {"declared", "StackOverflow", "Panic"}

BoolStr(b) == IF b THEN "true" ELSE "false"

\* the call before was ExpandedStructure.Validate (alone or inside
\* WriteToDevice) and it returned; `second` records this for the next pass
PassReturned == op \in {"Validate", "WriteToDevice"}

\* ------------------------------------------------------------------ actions
Init ==
    /\ \E dev \in Devices :
          /\ defs = dev.defs
          /\ structs = dev.structs
    /\ expanded = EmptyExpanded
    /\ Idle

Call_PopulateFromJson ==
    /\ Running
    /\ \E doc \in Docs \cup (IF op = "Json" THEN {out} ELSE {}) :
          /\ expanded' = PopulateFromJson(expanded, doc, defs)
          /\ arg' = doc
    /\ op' = "PopulateFromJson"
    /\ out' = <<>>
    /\ sent' = <<>>
    /\ valid' = "none"
    /\ vtrace' = <<>>
    /\ terr' = FALSE
    /\ second' = FALSE
    /\ UNCHANGED <<defs, structs, calls, mutex>>

Call_Json ==
    /\ Running
    /\ out' = Json(expanded)
    /\ op' = "Json"
    /\ arg' = <<>>
    /\ sent' = <<>>
    /\ valid' = "none"
    /\ vtrace' = <<>>
    /\ terr' = FALSE
    /\ second' = FALSE
    /\ UNCHANGED <<defs, structs, expanded, calls, mutex>>

Call_ByteArray ==
    /\ Running
    /\ out' = ByteArray(expanded, defs)
    /\ op' = "ByteArray"
    /\ arg' = <<>>
    /\ sent' = <<>>
    /\ valid' = "none"
    /\ vtrace' = <<>>
    /\ terr' = FALSE
    /\ second' = FALSE
    /\ UNCHANGED <<defs, structs, expanded, calls, mutex>>

Call_PopulateFromBytes ==
    /\ Running
    /\ \E buf \in {Pattern(expanded.Size), Pattern(expanded.Size - 1)}
                    \cup (IF op = "ByteArray" THEN {out} ELSE {}) :
          LET r == PopulateFromBytes(expanded, buf, defs) IN
          /\ expanded' = r.es
          /\ arg' = buf
          /\ op' = IF r.panic THEN "Panic" ELSE "PopulateFromBytes"
    /\ out' = <<>>
    /\ sent' = <<>>
    /\ valid' = "none"
    /\ vtrace' = <<>>
    /\ terr' = FALSE
    /\ second' = FALSE
    /\ UNCHANGED <<defs, structs, calls, mutex>>

Call_Validate ==
    /\ Running
    /\ LET r == ExpandedStructure_Validate(expanded, defs) IN
          /\ defs' = r.defs
          /\ vtrace' = r.trace
          /\ valid' = IF r.overflow THEN "none" ELSE BoolStr(r.result)
          /\ op' = IF r.overflow THEN "StackOverflow" ELSE "Validate"
    /\ arg' = <<>>
    /\ out' = <<>>
    /\ sent' = <<>>
    /\ terr' = FALSE
    /\ second' = PassReturned
    /\ UNCHANGED <<structs, expanded, calls, mutex>>

\* the value DriverToUse.Write / DriverToUse.Read returns as its error
TransportErrors == {FALSE, TRUE}

\* the handler assigns the error Write returns to err and returns without
\* reading it: the call ends the same way with and without an error
WriteToDevice ==
    /\ Running
    /\ \E doc \in Docs :
       \E es1 \in {PopulateFromJson(expanded, doc, defs)} :
       \E r \in {ExpandedStructure_Validate(es1, defs)} :
       \E bytes \in {ByteArray(es1, r.defs)} :
          /\ expanded' = es1
          /\ defs' = r.defs
          /\ vtrace' = r.trace
          /\ arg' = doc
          /\ IF r.overflow
             THEN /\ op' = "StackOverflow"
                  /\ valid' = "none"
                  /\ out' = <<>>
                  /\ sent' = <<>>
                  /\ terr' = FALSE
             ELSE /\ op' = "WriteToDevice"
                  /\ valid' = BoolStr(r.result)
                  /\ out' = bytes
                  /\ sent' = SerializePayload(bytes)
                  /\ terr' \in TransportErrors
    /\ second' = PassReturned
    /\ UNCHANGED <<structs, calls, mutex>>

\* the device leaves the request buffer as it is or fills it with its own
\* bytes; the handler assigns the error Read returns to err and goes on to
\* ExtractPayload, PopulateFromBytes and JsonString without reading it
ReadFromDevice ==
    /\ Running
    /\ \E doc \in Docs, own \in BOOLEAN :
       \E es1 \in {PopulateFromJson(expanded, doc, defs)} :
       \E bytes \in {SerializePayload(ByteArray(es1, defs))} :
       \E reply \in {IF own THEN <<CmdHeader>> \o Pattern(es1.Size) ELSE bytes} :
       \E r \in {PopulateFromBytes(es1, ExtractPayload(reply), defs)} :
          /\ expanded' = r.es
          /\ arg' = doc
          /\ sent' = bytes
          /\ out' = Json(r.es)
          /\ op' = "ReadFromDevice"
          /\ terr' \in TransportErrors
    /\ valid' = "none"
    /\ vtrace' = <<>>
    /\ second' = FALSE
    /\ UNCHANGED <<defs, structs, calls, mutex>>

Next ==
    \/ LoadDeviceDeclaration
    \/ Call_PopulateFromJson
    \/ Call_Json
    \/ Call_ByteArray
    \/ Call_PopulateFromBytes
    \/ Call_Validate
    \/ WriteToDevice
    \/ ReadFromDevice

Spec == Init /\ [][Next]_vars


\* ------------------------------------------------- concurrent callers
\* Two goroutines call WriteToDevice / ReadFromDevice for the same API of the
\* same device.  Both work on device.ExpandedStructures[apiName]; the
\* handlers take no lock.  A call advances statement by statement, and field
\* by field inside PopulateFromJson; a caller that follows the per-device
\* discipline takes the device's lock around the whole call.

\* {"status": 1, "value": 300} and {"status": 300, "value": 1}
RaceDocs ==
    {AlistOf(<<Cons(StringWithValue("status"), NumberWithValue(v)),
               Cons(StringWithValue("value"), NumberWithValue(w))>>) :
        <<v, w>> \in {<<1, 300>>, <<300, 1>>}}

\* mutant: a caller does not wait for the lock
MayBegin_IgnoresMutex(p) == TRUE

\* the caller may start its call: the lock, where it is used, is free
MayBegin(p) == mutex.used => mutex.holder = "free"

Acquire(p) == IF mutex.used THEN [mutex EXCEPT !.holder = p] ELSE mutex

Release(p) == IF mutex.used THEN [mutex EXCEPT !.holder = "free"] ELSE mutex

InitRace ==
    /\ defs = StatusValueDevice.defs
    /\ structs = StatusValueDevice.structs
    /\ expanded = EmptyExpanded
    /\ op = "declared"
    /\ arg = <<>>
    /\ out = <<>>
    /\ sent = <<>>
    /\ valid = "none"
    /\ vtrace = <<>>
    /\ terr = FALSE
    /\ second = FALSE
    /\ calls = NoCalls
    /\ mutex \in [used : BOOLEAN, holder : {"free"}]

Sequential == <<op, arg, out, sent, valid, vtrace, terr, second>>

\* the entry of a handler: the document is parsed, the API's structure found
Enter(p) ==
    /\ op = "Expand"
    /\ calls[p].pc = "idle"
    /\ MayBegin(p)
    /\ \E kind \in {"write", "read"}, doc \in RaceDocs :
          calls' = [calls EXCEPT ![p] = [@ EXCEPT !.pc = "populate", !.kind = kind,
                                                   !.doc = doc, !.k = 1]]
    /\ mutex' = Acquire(p)
    /\ UNCHANGED <<defs, structs, expanded, Sequential>>

\* mutant: the iteration goes by without storing the value in the field
PopulateField_StoresNothing(p) ==
    LET c == calls[p]
        last == c.k >= Len(expanded.Fields)
        next == IF ~last THEN "populate"
                ELSE IF c.kind = "write" THEN "validate" ELSE "bytearray"
    IN  /\ c.pc = "populate"
        /\ calls' = [calls EXCEPT ![p] = [@ EXCEPT !.pc = next, !.k = c.k + 1]]
        /\ UNCHANGED <<defs, structs, expanded, mutex, Sequential>>

\* one iteration of the loop of PopulateFromJson
PopulateField(p) ==
    LET c == calls[p]
        last == c.k >= Len(expanded.Fields)
        next == IF ~last THEN "populate"
                ELSE IF c.kind = "write" THEN "validate" ELSE "bytearray"
    IN  /\ c.pc = "populate"
        /\ expanded' =
              [expanded EXCEPT !.Fields[c.k].Value =
                  extractValueFromJson(expanded.Fields[c.k], c.doc, defs)]
        /\ calls' = [calls EXCEPT ![p] = [@ EXCEPT !.pc = next, !.k = c.k + 1]]
        /\ UNCHANGED <<defs, structs, mutex, Sequential>>

\* structure.Validate() of WriteToDevice; the boolean is dropped
ValidateStructure(p) ==
    /\ calls[p].pc = "validate"
    /\ \E r \in {ExpandedStructure_Validate(expanded, defs)} :
          /\ defs' = r.defs
          /\ calls' = [calls EXCEPT ![p].pc = IF r.overflow THEN "overflow"
                                                            ELSE "bytearray"]
    /\ UNCHANGED <<structs, expanded, mutex, Sequential>>

\* structure.ByteArray() and the framing of the payload
SerializeStructure(p) ==
    /\ calls[p].pc = "bytearray"
    /\ calls' = [calls EXCEPT ![p] = [@ EXCEPT !.pc = "transport",
                                               !.bytes = SerializePayload(ByteArray(expanded, defs))]]
    /\ UNCHANGED <<defs, structs, expanded, mutex, Sequential>>

\* DriverToUse.Write ends a write; DriverToUse.Read fills the buffer of a read
Transport(p) ==
    LET c == calls[p] IN
    /\ c.pc = "transport"
    /\ IF c.kind = "write"
       THEN /\ calls' = [calls EXCEPT ![p] = [@ EXCEPT !.pc = "done", !.handed = c.bytes]]
            /\ mutex' = Release(p)
       ELSE /\ calls' = [calls EXCEPT ![p] =
                            [@ EXCEPT !.pc = "frombytes", !.handed = c.bytes,
                                      !.bytes = <<CmdHeader>> \o Pattern(expanded.Size)]]
            /\ mutex' = mutex
    /\ UNCHANGED <<defs, structs, expanded, Sequential>>

\* structure.PopulateFromBytes(payload) of ReadFromDevice
PopulateFromReply(p) ==
    /\ calls[p].pc = "frombytes"
    /\ \E r \in {PopulateFromBytes(expanded, ExtractPayload(calls[p].bytes), defs)} :
          /\ expanded' = r.es
          /\ calls' = [calls EXCEPT ![p].pc = IF r.panic THEN "panic" ELSE "json"]
    /\ UNCHANGED <<defs, structs, mutex, Sequential>>

\* return structure.JsonString() of ReadFromDevice
RenderJson(p) ==
    /\ calls[p].pc = "json"
    /\ calls' = [calls EXCEPT ![p] = [@ EXCEPT !.pc = "done", !.result = Json(expanded)]]
    /\ mutex' = Release(p)
    /\ UNCHANGED <<defs, structs, expanded, Sequential>>

NextRace ==
    \/ LoadDeviceDeclaration
    \/ \E p \in Callers : Enter(p)
    \/ \E p \in Callers : PopulateField(p)
    \/ \E p \in Callers : ValidateStructure(p)
    \/ \E p \in Callers : SerializeStructure(p)
    \/ \E p \in Callers : Transport(p)
    \/ \E p \in Callers : PopulateFromReply(p)
    \/ \E p \in Callers : RenderJson(p)

SpecRace == InitRace /\ [][NextRace]_vars

\* ------------------------------------------------------------------ claims
F == expanded.Fields

Def(k) == defs[F[k].FieldDefinition]

NonConstant(k) == ~Def(k).IsConstant

\* the running cursor when leaf k is laid out: the end of the leaf before it
CursorBefore(k) == IF k = 1 THEN 0 ELSE F[k - 1].Offset + F[k - 1].Size

LeafSizes == [k \in 1..Len(F) |-> F[k].Size]

LeafOffsets == [k \in 1..Len(F) |-> F[k].Offset]

\* C4: every leaf's offset is the cursor plus the padding of the alignment
\* rule, which is the least multiple of the leaf's alignment at or after the
\* end of the previous leaf; leaves of sizes 1,4,2,1 get offsets 0,4,8,10
C4_AlignmentRule ==
    op = "Expand" =>
        /\ \A k \in 1..Len(F) :
              LET size == CursorBefore(k)
                  alignment == AlignmentOf(Def(k).TypeName)
                  padding == IF size = 0 \/ size % alignment = 0
                             THEN 0
                             ELSE alignment - (size % alignment)
              IN  /\ alignment = F[k].Size
                  /\ F[k].Offset = size + padding
                  /\ F[k].Offset % alignment = 0
                  /\ F[k].Offset >= size
                  /\ F[k].Offset - size < alignment
        /\ (LeafSizes = <<1, 4, 2, 1>> => LeafOffsets = <<0, 4, 8, 10>>)

C4_Witness ==
    /\ op = "Expand"
    /\ LeafSizes = <<1, 4, 2, 1>>
    /\ LeafOffsets = <<0, 4, 8, 10>>

\* C5: the offsets of an expansion increase strictly in list order and the
\* structure's Size is the offset plus the size of its last field
C5_LayoutInvariant ==
    op = "Expand" =>
        /\ \A k \in 1..(Len(F) - 1) : F[k].Offset < F[k + 1].Offset
        /\ (Len(F) > 0 => expanded.Size = F[Len(F)].Offset + F[Len(F)].Size)

RECURSIVE SumSizes(_)
SumSizes(sizes) == IF sizes = <<>> THEN 0 ELSE Head(sizes) + SumSizes(Tail(sizes))

\* a repeated nested structure whose expansion contains padding
C5_Witness ==
    /\ op = "Expand"
    /\ \E i \in 1..Len(structs["api"]) :
          /\ defs[structs["api"][i]].TypeName = "inner"
          /\ defs[structs["api"][i]].RepeatCount > 1
    /\ Len(F) >= 5
    /\ expanded.Size > SumSizes(LeafSizes)
    /\ expanded.Size = F[Len(F)].Offset + F[Len(F)].Size


Paths == [k \in 1..Len(F) |-> F[k].Path]

TypeNames == [k \in 1..Len(F) |-> Def(k).TypeName]

\* the value fits the bytes the field occupies
Fits(k) == F[k].Size >= 4 \/ F[k].Value < Pow256(F[k].Size)

\* a PopulateFromBytes step whose buffer is the one ByteArray just returned
BytesRoundTripStep == op = "ByteArray" /\ op' = "PopulateFromBytes" /\ arg' = out

\* C1 as stated: ByteArray followed by PopulateFromBytes on the returned
\* buffer leaves every non-constant field with the value it had
C1_AnyValueRoundTrips ==
    [][BytesRoundTripStep =>
          \A k \in 1..Len(F) :
              NonConstant(k) => expanded'.Fields[k].Value = F[k].Value]_vars

\* C1 amended: a non-constant field whose value fits its size keeps the
\* value; a wider value comes back reduced modulo 256^size
C1_ByteRoundTrip ==
    [][BytesRoundTripStep =>
          \A k \in 1..Len(F) :
              NonConstant(k) =>
                  expanded'.Fields[k].Value =
                      IF Fits(k) THEN F[k].Value ELSE F[k].Value % Pow256(F[k].Size)]_vars

C1_Witness ==
    /\ op = "PopulateFromBytes"
    /\ arg = ByteArray(expanded, defs)
    /\ \E k \in 1..Len(F) : NonConstant(k) /\ F[k].Size = 2 /\ F[k].Value = 300
    /\ \E k \in 1..Len(F) : NonConstant(k) /\ F[k].Size = 1 /\ F[k].Value = 1

\* C2: a WriteToDevice call whose Validate returned false hands no bytes to
\* the transport's Write
C2_NoWriteAfterFailedValidation ==
    (op = "WriteToDevice" /\ valid = "false") => sent = <<>>

\* {"status": 1, "value": 300}
C3_Doc ==
    AlistOf(<<Cons(StringWithValue("status"), NumberWithValue(1)),
              Cons(StringWithValue("value"), NumberWithValue(300))>>)

\* WriteToDevice of C3_Doc on the structure {status: uint8, value: uint16}
C3_Case ==
    /\ op = "WriteToDevice"
    /\ Paths = << <<"", "status">>, <<"", "value">> >>
    /\ TypeNames = <<"uint8", "uint16">>
    /\ arg = C3_Doc

\* C3 as stated: the buffer is the 3 bytes [1, 0x2C, 0x01], value at offset 1
C3_ThreeByteBuffer == C3_Case => out = <<1, 44, 1>>

\* C3 amended: the buffer is the 4 bytes [1, 0, 0x2C, 0x01]: status at offset
\* 0, a padding byte, value at offset 2, little-endian
C3_EndToEnd ==
    C3_Case =>
        /\ out = <<1, 0, 44, 1>>
        /\ LeafOffsets = <<0, 2>>
        /\ expanded.Size = 4

C3_Witness == C3_Case /\ Len(out) = 4 /\ sent = SerializePayload(out)

JsonNumberAt(doc, name) == NumericValue(Cdr(Assoc(StringWithValue(name), doc).pair))

\* C6: after expansion and any sequence of populate calls every constant
\* field holds its declared constant
C6_ConstantInvariance ==
    op # "declared" =>
        \A k \in 1..Len(F) : Def(k).IsConstant => F[k].Value = Def(k).Constant

\* a read whose document carries another number for the constant and whose
\* reply carries another byte at the constant's offset
C6_Witness ==
    /\ op = "ReadFromDevice"
    /\ \E k \in 1..Len(F) :
          /\ Def(k).IsConstant
          /\ F[k].Value = Def(k).Constant
          /\ JsonNumberAt(arg, Def(k).Name) = 300
          /\ Pattern(expanded.Size)[F[k].Offset + 1] # Def(k).Constant
    /\ \E j \in 1..Len(F) :
          /\ NonConstant(j)
          /\ F[j].Value = OrBytes(F[j], Pattern(expanded.Size), 0)

\* the per-field result the priority order prescribes
RuleResult(fieldDef, value) ==
    IF fieldDef.IsConstant THEN TRUE
    ELSE IF fieldDef.ValidRange # NoRule
    THEN fieldDef.ValidRange[1].Lo <= value /\ value <= fieldDef.ValidRange[1].Hi
    ELSE IF fieldDef.ValidValues # NoRule
    THEN value \in {fieldDef.ValidValues[1].Vals[i] : i \in 1..Len(fieldDef.ValidValues[1].Vals)}
    ELSE TRUE

\* C7: a field without a deferred rule validates to: true if constant, else
\* lo <= value <= hi if it has a range, else membership if it has a value
\* set, else true; Range{0,10} accepts 0 and 10 and rejects 11, the value set
\* {1,3,5} accepts 3 and rejects 2
C7_FieldValidation ==
    /\ Range_Validate([Lo |-> 0, Hi |-> 10], 0)
    /\ Range_Validate([Lo |-> 0, Hi |-> 10], 10)
    /\ ~Range_Validate([Lo |-> 0, Hi |-> 10], 11)
    /\ Values_Validate([Vals |-> <<1, 3, 5>>], 3)
    /\ ~Values_Validate([Vals |-> <<1, 3, 5>>], 2)
    /\ op \in {"Validate", "WriteToDevice"} =>
          \A i \in 1..Len(vtrace) :
              LET k == vtrace[i].field IN
              Def(k).DeferredValidationCode = "nil" =>
                  vtrace[i].result = RuleResult(Def(k), F[k].Value)

\* a pass where the constant is accepted against its range, the range
\* accepts its upper bound and the value set rejects
C7_Witness ==
    /\ op = "Validate"
    /\ Len(vtrace) = 3
    /\ Def(1).IsConstant /\ Def(1).ValidRange # NoRule
    /\ F[1].Value > Def(1).ValidRange[1].Hi
    /\ vtrace[1].result
    /\ Def(2).ValidRange # NoRule /\ F[2].Value = Def(2).ValidRange[1].Hi
    /\ vtrace[2].result
    /\ Def(3).ValidValues # NoRule /\ Def(3).ValidRange = NoRule
    /\ ~vtrace[3].result


\* the scope ExpandedStructure.Validate has built when it validates field k
EnvUpTo(k) ==
    [n \in {Def(j).Name : j \in 1..k} |->
        F[CHOOSE j \in 1..k : Def(j).Name = n /\ \A l \in (j + 1)..k : Def(l).Name # n].Value]

\* the rules the deferred expression of field k attaches to a definition
\* that carries none
Attached(k) ==
    LET fid == F[k].FieldDefinition
        bare == [defs EXCEPT ![fid].ValidRange = NoRule, ![fid].ValidValues = NoRule]
    IN  Eval(Def(k).DeferredValidationCode, EnvUpTo(k), bare, fid).defs[fid]

\* C8: a field validation that evaluated the deferred expression returns the
\* result of the rule the expression attached, applied to the field's value,
\* and leaves the definition without a range and without a value set
C8_DeferredAppliedAndReset ==
    op \in {"Validate", "WriteToDevice"} =>
        \A i \in 1..Len(vtrace) :
            LET k == vtrace[i].field IN
            vtrace[i].evals >= 1 =>
                /\ Def(k).ValidRange = NoRule
                /\ Def(k).ValidValues = NoRule
                /\ (Attached(k).ValidRange # NoRule \/ Attached(k).ValidValues # NoRule) =>
                      vtrace[i].result = RuleResult(Attached(k), F[k].Value)

RECURSIVE Walk(_, _)
\* the node a path leads to in a document: a key step needs an object with
\* exactly one such key, an index step an array with that element
Walk(node, steps) ==
    IF steps = <<>> THEN node
    ELSE IF ParseInt(steps[1]) # -1
    THEN IF node.t = "list" /\ ParseInt(steps[1]) + 1 <= Len(node.e)
         THEN Walk(node.e[ParseInt(steps[1]) + 1], Tail(steps))
         ELSE Nil
    ELSE LET hits == IF node.t = "alist"
                     THEN {i \in 1..Len(node.e) : node.e[i].e[1].s = steps[1]}
                     ELSE {}
         IN  IF Cardinality(hits) = 1
             THEN Walk(node.e[CHOOSE i \in hits : TRUE].e[2], Tail(steps))
             ELSE Nil

\* the structure with fields at a/b, a/c, items/0 and items/1
C9_Case ==
    Paths = << <<"", "a", "b">>, <<"", "a", "c">>, <<"", "items", "0">>, <<"", "items", "1">> >>

\* C9: in the document Json builds every field's path leads to that field's
\* value, and PopulateFromJson with that document leaves every non-constant
\* field with the value it had
C9_JsonRoundTrip ==
    [][(C9_Case /\ op = "Json") =>
          /\ \A k \in 1..Len(F) : Walk(out, Tail(F[k].Path)) = NumberWithValue(F[k].Value)
          /\ (op' = "PopulateFromJson" /\ arg' = out) =>
                \A k \in 1..Len(F) :
                    NonConstant(k) => expanded'.Fields[k].Value = F[k].Value]_vars

C9_Witness ==
    /\ C9_Case
    /\ op = "PopulateFromJson"
    /\ arg = Json(expanded)
    /\ F[1].Value = 1
    /\ F[2].Value = 300
    /\ F[3].Value = 300
    /\ F[4].Value = 1

RECURSIVE LacksKey(_, _)
\* the document has the objects the path goes through but not a key of it
LacksKey(node, steps) ==
    IF steps = <<>> THEN FALSE
    ELSE IF ParseInt(steps[1]) # -1
    THEN IF node.t = "list" /\ ParseInt(steps[1]) + 1 <= Len(node.e)
         THEN LacksKey(node.e[ParseInt(steps[1]) + 1], Tail(steps))
         ELSE FALSE
    ELSE IF node.t # "alist" THEN FALSE
    ELSE LET hits == {i \in 1..Len(node.e) : node.e[i].e[1].s = steps[1]}
         IN  IF hits = {} THEN TRUE
             ELSE LacksKey(node.e[CHOOSE i \in hits : TRUE].e[2], Tail(steps))

\* C10: after a populate from a document that lacks a key on a non-constant
\* field's path the field's value is 0, whatever the field held before
C10_MissingKeyGivesZero ==
    op \in {"PopulateFromJson", "WriteToDevice"} =>
        \A k \in 1..Len(F) :
            (NonConstant(k) /\ LacksKey(arg, Tail(F[k].Path))) => F[k].Value = 0

\* the object a is present without its key b, next to a field that was read
C10_Witness ==
    /\ op = "PopulateFromJson"
    /\ \E k \in 1..Len(F) :
          /\ NonConstant(k)
          /\ Len(F[k].Path) = 3
          /\ LacksKey(arg, Tail(F[k].Path))
          /\ ~LacksKey(arg, <<F[k].Path[2]>>)
          /\ F[k].Value = 0
    /\ \E j \in 1..Len(F) : F[j].Value = 300

\* the positions of the leaves expanded from definition fid
LeavesOf(fid) == {k \in 1..Len(F) : F[k].FieldDefinition = fid}

\* C11: a primitive field of the structure with RepeatCount n > 1 expands to
\* exactly n leaves, adjacent and in index order, with paths name/0 ..
\* name/(n-1) and strictly increasing offsets; with RepeatCount 1 it expands
\* to one leaf whose path part is the name alone; every leaf's path ends with
\* the path part of its definition
C11_RepeatedExpansion ==
    op = "Expand" =>
        /\ \A i \in 1..Len(structs["api"]) :
              LET fid == structs["api"][i]
                  f == defs[fid]
                  n == f.RepeatCount
                  ks == LeavesOf(fid)
              IN  IsAtomic(f) =>
                    /\ Cardinality(ks) = n
                    /\ \E first \in ks :
                          /\ ks = first..(first + n - 1)
                          /\ \A j \in 0..(n - 1) :
                                /\ F[first + j].Path =
                                      IF n > 1 THEN <<"", f.Name, Itoa(j)>>
                                               ELSE <<"", f.Name>>
                                /\ j > 0 => F[first + j].Offset > F[first + j - 1].Offset
        /\ \A k \in 1..Len(F) :
              LET path == F[k].Path
                  len == Len(path)
              IN  IF Def(k).RepeatCount > 1
                  THEN /\ len >= 3
                       /\ path[len - 1] = Def(k).Name
                       /\ ParseInt(path[len]) \in 0..(Def(k).RepeatCount - 1)
                  ELSE path[len] = Def(k).Name

\* a 3-element repeated primitive field next to a field with RepeatCount 1
C11_Witness ==
    /\ op = "Expand"
    /\ \E i, j \in 1..Len(structs["api"]) :
          LET f == defs[structs["api"][i]]
              g == defs[structs["api"][j]]
          IN  /\ IsAtomic(f) /\ f.RepeatCount = 3
              /\ IsAtomic(g) /\ g.RepeatCount = 1
              /\ \E first \in 1..Len(F) :
                    /\ first + 2 <= Len(F)
                    /\ \A x \in 0..2 : F[first + x].Path = <<"", f.Name, Itoa(x)>>
                    /\ F[first].Offset < F[first + 1].Offset
                    /\ F[first + 1].Offset < F[first + 2].Offset
              /\ \E k \in 1..Len(F) : F[k].Path = <<"", g.Name>>

\* the entry point returned to its caller in the ordinary way
ReturnedNormally == op \in {"WriteToDevice", "ReadFromDevice"}

\* C12: a WriteToDevice or ReadFromDevice call whose transport call returned
\* an error does not return to its caller as a call without an error does
C12_TransportErrorPropagated == terr => ~ReturnedNormally

\* validation i of the trace evaluated the field's deferred expression
Evaluated(i) == vtrace[i].evals >= 1

\* C13: the frame a deferred expression is evaluated in binds the name of
\* every field of the structure, the later ones included, to the field's value
C13_ScopeBindsEveryField ==
    op \in {"Validate", "WriteToDevice"} =>
        \A i \in 1..Len(vtrace) :
            Evaluated(i) =>
                \A j \in 1..Len(F) :
                    /\ Def(j).Name \in DOMAIN vtrace[i].env
                    /\ vtrace[i].env[Def(j).Name] = F[j].Value

\* a validation pass returned
Validated == op \in {"Validate", "WriteToDevice"}

\* C14: a validation pass that returned has validated the fields 1, 2, ... in
\* list order, every one but the last validated with result true; it returned
\* false exactly when the last field validated failed (and then no later field
\* was validated, so no later deferred expression was evaluated) and true
\* exactly when all fields were validated and none failed
C14_OrderedShortCircuit ==
    Validated =>
        /\ Len(vtrace) <= Len(F)
        /\ \A i \in 1..Len(vtrace) : vtrace[i].field = i
        /\ \A i \in 1..(Len(vtrace) - 1) : vtrace[i].result
        /\ valid = "false" <=> (Len(vtrace) >= 1 /\ ~vtrace[Len(vtrace)].result)
        /\ valid = "true" <=>
              (Len(vtrace) = Len(F) /\ \A i \in 1..Len(vtrace) : vtrace[i].result)

\* the first field failed its range and the field after it, which carries a
\* deferred rule, was neither validated nor had its expression evaluated
C14_Witness ==
    /\ op = "Validate"
    /\ valid = "false"
    /\ Len(vtrace) = 1
    /\ ~vtrace[1].result
    /\ Len(F) = 2
    /\ Def(1).ValidRange # NoRule
    /\ Def(2).DeferredValidationCode # "nil"
    /\ Def(2).ValidRange = NoRule

\* a pass has just returned in which field k's deferred expression was
\* evaluated and which left its definition without a range and a value set,
\* and the step is a pass that returns and validates field k again
SecondValidationOf(k) ==
    /\ PassReturned
    /\ k <= Len(vtrace)
    /\ vtrace[k].evals >= 1
    /\ Def(k).ValidRange = NoRule
    /\ Def(k).ValidValues = NoRule
    /\ op' \in {"Validate", "WriteToDevice"}
    /\ k <= Len(vtrace')

\* C15 as stated: the second validation of the field does not evaluate the
\* deferred expression again
C15_NoSecondEvaluation ==
    [][\A k \in 1..Len(F) : SecondValidationOf(k) => vtrace'[k].evals = 0]_vars

\* C15 amended: the definition keeps its deferred expression, so the second
\* validation of the field, finding no range and no value set, evaluates the
\* expression again, once
C15_EvaluatedEveryPass ==
    [][\A k \in 1..Len(F) : SecondValidationOf(k) => vtrace'[k].evals = 1]_vars

\* the second of two passes over {len, idx with a deferred rule}: idx was
\* validated against the rule its expression attached, and the rule is gone
C15_Witness ==
    /\ second
    /\ PassReturned
    /\ Len(vtrace) = 2
    /\ Def(1).DeferredValidationCode = "nil"
    /\ Def(1).ValidRange = NoRule /\ Def(1).ValidValues = NoRule
    /\ Def(2).DeferredValidationCode # "nil"
    /\ Def(2).ValidRange = NoRule /\ Def(2).ValidValues = NoRule
    /\ vtrace[2].evals = 1
    /\ vtrace[2].result

\* C17: every call of ExpandedStructure.Validate (alone or inside
\* WriteToDevice) on a structure with a deferred rule comes back with a
\* boolean, whatever the deferred expression does
C17_DeferredValidationTerminates ==
    op \in {"Validate", "WriteToDevice", "StackOverflow"} => valid \in {"true", "false"}

\* the call of p has handed its bytes to the transport
Handed(p) == calls[p].handed # <<>>

\* the number the bytes handed by p carry for field k
HandedValue(p, k) == OrBytes(F[k], ExtractPayload(calls[p].handed), 0)

\* the encoding of the value the call of q populates field k with from its
\* document
DocValue(q, k) == extractValueFromJson(F[k], calls[q].doc, defs) % Pow256(F[k].Size)

\* the value a read populates field k with from the device's reply
ReplyValue(k) == OrBytes(F[k], Pattern(expanded.Size), 0)

\* the values a call of q populates field k with
PopulatedBy(q, k) ==
    IF calls[q].kind = "none" THEN {}
    ELSE {DocValue(q, k)} \cup (IF calls[q].kind = "read" THEN {ReplyValue(k)} ELSE {})

\* C16: with the calls serialized per device the bytes a call hands to the
\* transport encode, field by field, the values that call populated from its
\* document; without serialization every field of the bytes encodes a value
\* populated by that call or by the other one (the state where it is the
\* other one's is C16_Witness)
C16_SharedStructureRace ==
    \A p \in Callers :
        Handed(p) =>
            /\ mutex.used => \A k \in 1..Len(F) : HandedValue(p, k) = DocValue(p, k)
            /\ \A k \in 1..Len(F) :
                  \E q \in Callers : HandedValue(p, k) \in PopulatedBy(q, k)

\* unserialized calls: a write handed bytes in which one field carries the
\* value of its own document and another field the value of the other call's
C16_Witness ==
    /\ ~mutex.used
    /\ \E p \in Callers : \E q \in Callers \ {p} :
          /\ calls[p].kind = "write"
          /\ calls[p].pc = "done"
          /\ Handed(p)
          /\ \E k \in 1..Len(F) :
                /\ HandedValue(p, k) = DocValue(q, k)
                /\ HandedValue(p, k) # DocValue(p, k)
          /\ \E j \in 1..Len(F) :
                /\ HandedValue(p, j) = DocValue(p, j)
                /\ HandedValue(p, j) # DocValue(q, j)

\* serialized calls: both calls are over, each handed the bytes of its own
\* document
C16_SerializedWitness ==
    /\ mutex.used
    /\ \A p \in Callers :
          /\ calls[p].pc = "done"
          /\ \A k \in 1..Len(F) : HandedValue(p, k) = DocValue(p, k)
    /\ calls["c1"].doc # calls["c2"].doc

====
